---------------------------- MODULE Spec2Model ----------------------------
(***************************************************************************)
(* Model of puribe/gruposiete: the audited base class ModeloBase           *)
(* (app/models.py), the foreign keys of the domain tables with their       *)
(* on_delete rules (app/models.py) and the two permission classes          *)
(* (api/permissions.py).                                                   *)
(*                                                                         *)
(* Five specifications share the variables:                                *)
(*   SpecPerm   the permission predicates applied to a request             *)
(*   SpecAudit  one in-memory audited instance, saved by changing actors   *)
(*   SpecReport a MedidaReportada instance, its estado and its saves       *)
(*   SpecConc   two threads running ModeloBase.save on one new instance    *)
(*   SpecDB     the tables and the deletions with their cascades           *)
(* Python values are modelled as Python computes them: None, True and      *)
(* False are the strings "None", "True", "False"; a primary key or a       *)
(* foreign key id is a natural number and NULL (0) stands for None, which  *)
(* `not x` treats like 0.                                                  *)
(***************************************************************************)
EXTENDS Naturals, FiniteSets, Sequences, TLC

VARIABLES
    request_user,   \* SpecPerm: request.user of the request being authorised
    ret_sectorial,  \* SpecPerm: outcome of IsOrganizacionSectorial.has_permission
    ret_admin,      \* SpecPerm: outcome of IsOrganizacionSectorialOrAdmin.has_permission
    self,           \* SpecAudit/SpecConc: the in-memory model instance
    rows,           \* SpecAudit/SpecConc: the table of the instance's class, pk -> row
    last,           \* history: the last operation and what it started from
    pc,             \* SpecConc: each thread's position in ModeloBase.save
    user,           \* SpecConc: each thread's local variable `user`
    actor,          \* SpecConc: each thread's ambient user (crum's thread local)
    persisted,      \* SpecConc: the threads in the order their super().save() ran
    tipos,          \* SpecDB: pks of the TipoMedida rows
    planes,         \* SpecDB: pks of the Plan rows
    organismos,     \* SpecDB: pks of the OrganismoSectorial rows
    verificaciones, \* SpecDB: pks of the Verificacion rows
    medidas,        \* SpecDB: Medida rows, pk -> its three foreign keys
    verif_medida,   \* SpecDB: VerificacionMedida rows
    reportadas,     \* SpecDB: MedidaReportada rows, pk -> its row
    usuarios        \* SpecDB: CustomUser rows, pk -> its row

vars == <<request_user, ret_sectorial, ret_admin, self, rows, last, pc, user,
          actor, persisted, tipos, planes, organismos, verificaciones, medidas,
          verif_medida, reportadas, usuarios>>

permVars  == <<request_user, ret_sectorial, ret_admin>>
auditVars == <<self, rows>>
concVars  == <<pc, user, actor, persisted>>
dbVars    == <<tipos, planes, organismos, verificaciones, medidas, verif_medida,
               reportadas, usuarios>>

\* None as a primary key or a foreign key id
NULL == 0

(***************************************************************************)
(*                      api/permissions.py                                 *)
(***************************************************************************)

\* the group both classes look up
GROUP_NAME == "organizacion_sectorial"

\* group names a caller may belong to
GroupNames == {GROUP_NAME, "fiscalizador", "otro"}

\* request.user: absent (None), or an object whose attribute is_staff is
\* missing ("NoAttr") or a bool, and whose attribute groups is missing
\* ("NoAttr"), raises when it is queried ("Raises"), or answers from `names`.
Callers ==
    {[present |-> FALSE, is_staff |-> "NoAttr", groups |-> "NoAttr", names |-> {}]}
    \cup
    {[present |-> TRUE, is_staff |-> s, groups |-> g, names |-> n] :
        s \in {"NoAttr", "True", "False"}, g \in {"NoAttr", "Raises"}, n \in {{}}}
    \cup
    {[present |-> TRUE, is_staff |-> s, groups |-> "ok", names |-> n] :
        s \in {"NoAttr", "True", "False"}, n \in SUBSET GroupNames}

\* request.user.groups.filter(name='organizacion_sectorial').exists()
GroupLookup(u) ==
    CASE u.groups = "NoAttr" -> "AttributeError"
      [] u.groups = "Raises" -> "Exception"
      [] OTHER -> IF GROUP_NAME \in u.names THEN "True" ELSE "False"

\* request.user.is_staff
IsStaff(u) == IF u.is_staff = "NoAttr" THEN "AttributeError" ELSE u.is_staff

\* the expression of IsOrganizacionSectorial.has_permission's return statement:
\* `x and y` is x when x is falsy (None for an absent caller)
SectorialExpr(u) ==
    IF ~u.present THEN [value |-> "None", looked_up |-> FALSE]
    ELSE [value |-> GroupLookup(u), looked_up |-> u.groups # "NoAttr"]

\* the expression of IsOrganizacionSectorialOrAdmin.has_permission's return
\* statement: `a or b` does not evaluate b when a is truthy
AdminExpr(u) ==
    IF ~u.present THEN [value |-> "None", looked_up |-> FALSE]
    ELSE IF IsStaff(u) # "False" THEN [value |-> IsStaff(u), looked_up |-> FALSE]
    ELSE [value |-> GroupLookup(u), looked_up |-> u.groups # "NoAttr"]

\* a handler list that lacks the generic `except Exception`
ExceptAttributeErrorOnly(r) ==
    IF r.value = "AttributeError" THEN [r EXCEPT !.value = "False"]
    ELSE IF r.value = "Exception" THEN [r EXCEPT !.value = "Raise"]
    ELSE r

\* try: ... except AttributeError: return False / except Exception: return False
Except(r) ==
    IF r.value \in {"AttributeError", "Exception"} THEN [r EXCEPT !.value = "False"]
    ELSE r

\* a predicate that forgets the caller's is_staff flag
AdminIgnoringStaff(u) == Except(SectorialExpr(u))

\* a predicate that tests the flag is_staff in place of the group
SectorialByStaff(u) ==
    Except(IF ~u.present THEN [value |-> "None", looked_up |-> FALSE]
           ELSE [value |-> IsStaff(u), looked_up |-> FALSE])

IsOrganizacionSectorial(u) == Except(SectorialExpr(u))

IsOrganizacionSectorialOrAdmin(u) == Except(AdminExpr(u))

NotCalled == [called |-> FALSE, value |-> "None", looked_up |-> FALSE]

Called(r) == [called |-> TRUE, value |-> r.value, looked_up |-> r.looked_up]

\* Python truthiness of what has_permission returned
Truthy(v) == v = "True"

\* a value a caller of has_permission reads as denial
Falsy(v) == v \in {"None", "False"}

\* a new request arrives with caller u
Request(u) ==
    /\ request_user' = u
    /\ ret_sectorial' = NotCalled
    /\ ret_admin' = NotCalled

\* the view's permission class IsOrganizacionSectorial is evaluated
CheckSectorial ==
    /\ ~ret_sectorial.called
    /\ ret_sectorial' = Called(IsOrganizacionSectorial(request_user))
    /\ UNCHANGED <<request_user, ret_admin>>

\* the view's permission class IsOrganizacionSectorialOrAdmin is evaluated
CheckSectorialOrAdmin ==
    /\ ~ret_admin.called
    /\ ret_admin' = Called(IsOrganizacionSectorialOrAdmin(request_user))
    /\ UNCHANGED <<request_user, ret_sectorial>>

(***************************************************************************)
(*                 app/models.py: ModeloBase.save                          *)
(***************************************************************************)

\* users with a row in the user table have pks 1..NumUsers
NumUsers == 2

\* rows the table of the saved class may hold
MaxPk == 2

UserPks == 1..NumUsers

\* None in place of a user object
NoneRef == [present |-> FALSE, pk |-> NULL]

\* a user object: pk NULL for AnonymousUser or a user never saved
UserObj(p) == [present |-> TRUE, pk |-> p]

\* what get_current_user() may return
UserRefs == {NoneRef} \cup {UserObj(p) : p \in {NULL} \cup UserPks}

\* what code that assigns created_by / updated_by itself may assign
SavedRefs == {NoneRef} \cup {UserObj(p) : p \in UserPks}

ESTADO_VERIFICACION == {"VERIFICACION_PENDIENTE", "VERIFICADA", "RECHAZADA"}

\* default= of MedidaReportada.estado
EstadoDefault == "VERIFICACION_PENDIENTE"

\* values a caller may put in estado: the choices and one string outside them
EstadoInputs == ESTADO_VERIFICACION \cup {"OTRO"}

\* the id column of a foreign key holding ref
FkId(ref) == IF ref.present THEN ref.pk ELSE NULL

\* the normalisation dropped: an unsaved user object is kept
CurrentUserUnchecked(u) == u

\* lines 38-40: user = get_current_user(); if user and not user.pk: user = None
CurrentUser(u) == IF u.present /\ u.pk = NULL THEN NoneRef ELSE u

\* a stamping that keeps what the caller put in the fields
StampIfUnset(s, u) ==
    IF s.pk = NULL
    THEN [s EXCEPT !.created_by = IF s.created_by = NoneRef THEN u ELSE @,
                   !.updated_by = IF s.updated_by = NoneRef THEN u ELSE @]
    ELSE s

\* lines 41-43: if not self.pk: self.created_by = user; self.updated_by = user
Stamp(s, u) ==
    IF s.pk = NULL THEN [s EXCEPT !.created_by = u, !.updated_by = u] ELSE s

\* the row super().save() writes for instance s
RowOf(s) ==
    [created_by_id |-> FkId(s.created_by), updated_by_id |-> FkId(s.updated_by),
     estado |-> s.estado]

\* the pk super().save() gives instance s: its own, or the next of the sequence
SavedPk(s, tbl) == IF s.pk = NULL THEN Cardinality(DOMAIN tbl) + 1 ELSE s.pk

\* line 44, the table after super().save(): INSERT without a pk, else UPDATE.
\* No field is validated: Model.save() does not run full_clean().
TableAfterSave(s, tbl) ==
    [p \in DOMAIN tbl \cup {SavedPk(s, tbl)} |->
        IF p = SavedPk(s, tbl) THEN RowOf(s) ELSE tbl[p]]

\* line 44, the instance after super().save()
InstanceAfterSave(s, tbl) == [s EXCEPT !.pk = SavedPk(s, tbl)]

NoOp == [op |-> "none", actor |-> NoneRef, was_new |-> FALSE,
         before |-> [pk |-> NULL, created_by |-> NoneRef, updated_by |-> NoneRef,
                     estado |-> EstadoDefault],
         id |-> NULL, usuarios_before |-> <<>>,
         removed |-> [medidas |-> {}, reportadas |-> {}, links |-> {}]]

\* Cls(created_by=cb, updated_by=ub): a new instance, estado left to its default
Construct(cb, ub) ==
    /\ self' = [pk |-> NULL, created_by |-> cb, updated_by |-> ub,
                estado |-> EstadoDefault]
    /\ last' = [NoOp EXCEPT !.op = "construct"]
    /\ UNCHANGED rows

\* MedidaReportada(estado=e)
ConstructWithEstado(e) ==
    /\ self' = [pk |-> NULL, created_by |-> NoneRef, updated_by |-> NoneRef,
                estado |-> e]
    /\ last' = [NoOp EXCEPT !.op = "construct_estado"]
    /\ UNCHANGED rows

\* self.created_by = ref
AssignCreatedBy(ref) ==
    /\ self' = [self EXCEPT !.created_by = ref]
    /\ last' = NoOp
    /\ UNCHANGED rows

\* self.updated_by = ref
AssignUpdatedBy(ref) ==
    /\ self' = [self EXCEPT !.updated_by = ref]
    /\ last' = NoOp
    /\ UNCHANGED rows

\* self.estado = e
AssignEstado(e) ==
    /\ self' = [self EXCEPT !.estado = e]
    /\ last' = NoOp
    /\ UNCHANGED rows

\* Cls.objects.get(pk=p)
Load(p) ==
    /\ p \in DOMAIN rows
    /\ self' = [pk |-> p,
                created_by |-> IF rows[p].created_by_id = NULL THEN NoneRef
                               ELSE UserObj(rows[p].created_by_id),
                updated_by |-> IF rows[p].updated_by_id = NULL THEN NoneRef
                               ELSE UserObj(rows[p].updated_by_id),
                estado |-> rows[p].estado]
    /\ last' = NoOp
    /\ UNCHANGED rows

\* ModeloBase.save() called while get_current_user() returns a
Save(a) ==
    /\ SavedPk(self, rows) <= MaxPk
    /\ LET stamped == Stamp(self, CurrentUser(a)) IN
        /\ rows' = TableAfterSave(stamped, rows)
        /\ self' = InstanceAfterSave(stamped, rows)
    /\ last' = [NoOp EXCEPT !.op = "save", !.actor = a,
                            !.was_new = (self.pk = NULL), !.before = self]

(***************************************************************************)
(*       ModeloBase.save run by two threads on one new instance            *)
(***************************************************************************)

Threads == {"t1", "t2"}

\* line 38: user = get_current_user()
L38(t) ==
    /\ pc[t] = "L38"
    /\ user' = [user EXCEPT ![t] = actor[t]]
    /\ pc' = [pc EXCEPT ![t] = "L39"]
    /\ UNCHANGED <<self, rows, actor, persisted>>

\* lines 39-40: if user and not user.pk: user = None
L39(t) ==
    /\ pc[t] = "L39"
    /\ user' = [user EXCEPT ![t] = CurrentUser(user[t])]
    /\ pc' = [pc EXCEPT ![t] = "L41"]
    /\ UNCHANGED <<self, rows, actor, persisted>>

\* line 41: if not self.pk
L41(t) ==
    /\ pc[t] = "L41"
    /\ pc' = [pc EXCEPT ![t] = IF self.pk = NULL THEN "L42" ELSE "L44"]
    /\ UNCHANGED <<self, rows, user, actor, persisted>>

\* line 42: self.created_by = user
L42(t) ==
    /\ pc[t] = "L42"
    /\ self' = [self EXCEPT !.created_by = user[t]]
    /\ pc' = [pc EXCEPT ![t] = "L43"]
    /\ UNCHANGED <<rows, user, actor, persisted>>

\* line 43: self.updated_by = user
L43(t) ==
    /\ pc[t] = "L43"
    /\ self' = [self EXCEPT !.updated_by = user[t]]
    /\ pc' = [pc EXCEPT ![t] = "L44"]
    /\ UNCHANGED <<rows, user, actor, persisted>>

\* line 44: super().save(), one statement against the database
L44(t) ==
    /\ pc[t] = "L44"
    /\ rows' = TableAfterSave(self, rows)
    /\ self' = InstanceAfterSave(self, rows)
    /\ persisted' = Append(persisted, t)
    /\ pc' = [pc EXCEPT ![t] = "done"]
    /\ UNCHANGED <<user, actor>>

(***************************************************************************)
(*          app/models.py: the tables and their foreign keys               *)
(***************************************************************************)

\* OrganismoSectorial rows the model creates
NumOrganismos == 2

\* Medida rows the model creates
NumMedidas == 2

TipoPks == {1}
PlanPks == {1}
OrganismoPks == 1..NumOrganismos
VerificacionPks == {1}
MedidaPks == 1..NumMedidas
ReportadaPks == {1}
UsuarioPks == {1}

\* Medida.tipo_medida, on_delete CASCADE: the Medida rows deleted with tipo t
MedidasOfTipo(t) == {m \in DOMAIN medidas : medidas[m].tipo_medida = t}

\* a foreign key to Plan that leaves the referencing rows alone
MedidasOfPlanDoNothing(p) == {}

\* Medida.plan, on_delete CASCADE: the Medida rows deleted with plan p
MedidasOfPlan(p) == {m \in DOMAIN medidas : medidas[m].plan = p}

\* Medida.organismo_sectorial, on_delete CASCADE
MedidasOfOrganismo(o) ==
    {m \in DOMAIN medidas : medidas[m].organismo_sectorial = o}

\* MedidaReportada.medida, on_delete CASCADE: the rows deleted with Medidas ms
ReportadasOfMedidas(ms) ==
    {r \in DOMAIN reportadas : reportadas[r].medida \in ms}

\* MedidaReportada.organismo_sectorial, on_delete CASCADE
ReportadasOfOrganismo(o) ==
    {r \in DOMAIN reportadas : reportadas[r].organismo_sectorial = o}

\* VerificacionMedida.medida, on_delete CASCADE
LinksOfMedidas(ms) == {l \in verif_medida : l.medida \in ms}

\* VerificacionMedida.verificacion, on_delete CASCADE
LinksOfVerificacion(v) == {l \in verif_medida : l.verificacion = v}

\* a foreign key to OrganismoSectorial that deletes the referencing users
UsuariosCascade(o) ==
    [u \in {x \in DOMAIN usuarios : usuarios[x].organismo_sectorial # o} |->
        usuarios[u]]

\* CustomUser.organismo_sectorial, on_delete SET_NULL: the user table after
\* OrganismoSectorial o is deleted
UsuariosSetNull(o) ==
    [u \in DOMAIN usuarios |->
        IF usuarios[u].organismo_sectorial = o
        THEN [usuarios[u] EXCEPT !.organismo_sectorial = NULL]
        ELSE usuarios[u]]

\* f without the keys in s
Without(f, s) == [x \in DOMAIN f \ s |-> f[x]]

\* the deletion Django's collector runs for Medida rows ms, MedidaReportada
\* rows rs and VerificacionMedida rows ls: ms take their own dependents along
Collect(ms, rs, ls) ==
    /\ medidas' = Without(medidas, ms)
    /\ reportadas' = Without(reportadas, rs \cup ReportadasOfMedidas(ms))
    /\ verif_medida' = verif_medida \ (ls \cup LinksOfMedidas(ms))

\* history: deletion op of row id, and the rows that went with it
Did(op, id) ==
    [NoOp EXCEPT !.op = op, !.id = id,
                 !.removed = [medidas |-> DOMAIN medidas \ DOMAIN medidas',
                              reportadas |-> DOMAIN reportadas \ DOMAIN reportadas',
                              links |-> verif_medida \ verif_medida']]

CreateTipoMedida(t) ==
    /\ t \notin tipos
    /\ tipos' = tipos \cup {t}
    /\ last' = NoOp
    /\ UNCHANGED <<planes, organismos, verificaciones, medidas, verif_medida,
                   reportadas, usuarios>>

CreatePlan(p) ==
    /\ p \notin planes
    /\ planes' = planes \cup {p}
    /\ last' = NoOp
    /\ UNCHANGED <<tipos, organismos, verificaciones, medidas, verif_medida,
                   reportadas, usuarios>>

CreateOrganismoSectorial(o) ==
    /\ o \notin organismos
    /\ organismos' = organismos \cup {o}
    /\ last' = NoOp
    /\ UNCHANGED <<tipos, planes, verificaciones, medidas, verif_medida,
                   reportadas, usuarios>>

CreateVerificacion(v) ==
    /\ v \notin verificaciones
    /\ verificaciones' = verificaciones \cup {v}
    /\ last' = NoOp
    /\ UNCHANGED <<tipos, planes, organismos, medidas, verif_medida,
                   reportadas, usuarios>>

\* a Medida row is inserted; the database holds its three foreign keys to
\* existing rows
CreateMedida(m, t, p, o) ==
    /\ m \notin DOMAIN medidas
    /\ t \in tipos /\ p \in planes /\ o \in organismos
    /\ medidas' = [x \in DOMAIN medidas \cup {m} |->
                    IF x = m THEN [tipo_medida |-> t, plan |-> p,
                                   organismo_sectorial |-> o]
                    ELSE medidas[x]]
    /\ last' = NoOp
    /\ UNCHANGED <<tipos, planes, organismos, verificaciones, verif_medida,
                   reportadas, usuarios>>

\* medida.verificaciones.add(v): a VerificacionMedida row
CreateVerificacionMedida(v, m) ==
    /\ v \in verificaciones /\ m \in DOMAIN medidas
    /\ [verificacion |-> v, medida |-> m] \notin verif_medida
    /\ verif_medida' = verif_medida \cup {[verificacion |-> v, medida |-> m]}
    /\ last' = NoOp
    /\ UNCHANGED <<tipos, planes, organismos, verificaciones, medidas,
                   reportadas, usuarios>>

CreateMedidaReportada(r, o, m) ==
    /\ r \notin DOMAIN reportadas
    /\ o \in organismos /\ m \in DOMAIN medidas
    /\ reportadas' = [x \in DOMAIN reportadas \cup {r} |->
                        IF x = r THEN [organismo_sectorial |-> o, medida |-> m]
                        ELSE reportadas[x]]
    /\ last' = NoOp
    /\ UNCHANGED <<tipos, planes, organismos, verificaciones, medidas,
                   verif_medida, usuarios>>

\* usuario.organismo_sectorial = o; usuario.save()
SetUsuarioOrganismo(u, o) ==
    /\ u \in DOMAIN usuarios
    /\ o \in organismos \cup {NULL}
    /\ usuarios[u].organismo_sectorial # o
    /\ usuarios' = [usuarios EXCEPT ![u].organismo_sectorial = o]
    /\ last' = NoOp
    /\ UNCHANGED <<tipos, planes, organismos, verificaciones, medidas,
                   verif_medida, reportadas>>

DeleteTipoMedida(t) ==
    /\ t \in tipos
    /\ tipos' = tipos \ {t}
    /\ Collect(MedidasOfTipo(t), {}, {})
    /\ last' = Did("delete_tipo_medida", t)
    /\ UNCHANGED <<planes, organismos, verificaciones, usuarios>>

DeletePlan(p) ==
    /\ p \in planes
    /\ planes' = planes \ {p}
    /\ Collect(MedidasOfPlan(p), {}, {})
    /\ last' = Did("delete_plan", p)
    /\ UNCHANGED <<tipos, organismos, verificaciones, usuarios>>

DeleteOrganismoSectorial(o) ==
    /\ o \in organismos
    /\ organismos' = organismos \ {o}
    /\ Collect(MedidasOfOrganismo(o), ReportadasOfOrganismo(o), {})
    /\ usuarios' = UsuariosSetNull(o)
    /\ last' = [Did("delete_organismo", o) EXCEPT !.usuarios_before = usuarios]
    /\ UNCHANGED <<tipos, planes, verificaciones>>

DeleteVerificacion(v) ==
    /\ v \in verificaciones
    /\ verificaciones' = verificaciones \ {v}
    /\ Collect({}, {}, LinksOfVerificacion(v))
    /\ last' = Did("delete_verificacion", v)
    /\ UNCHANGED <<tipos, planes, organismos, usuarios>>

DeleteMedida(m) ==
    /\ m \in DOMAIN medidas
    /\ Collect({m}, {}, {})
    /\ last' = Did("delete_medida", m)
    /\ UNCHANGED <<tipos, planes, organismos, verificaciones, usuarios>>

DeleteMedidaReportada(r) ==
    /\ r \in DOMAIN reportadas
    /\ Collect({}, {r}, {})
    /\ last' = NoOp
    /\ UNCHANGED <<tipos, planes, organismos, verificaciones, usuarios>>

(***************************************************************************)
(*                        The specifications                               *)
(***************************************************************************)

PermIdle ==
    /\ request_user = [present |-> FALSE, is_staff |-> "NoAttr",
                       groups |-> "NoAttr", names |-> {}]
    /\ ret_sectorial = NotCalled
    /\ ret_admin = NotCalled

AuditIdle ==
    /\ self = NoOp.before
    /\ rows = <<>>

ConcIdle ==
    /\ pc = [t \in Threads |-> "L38"]
    /\ user = [t \in Threads |-> NoneRef]
    /\ actor = [t \in Threads |-> NoneRef]
    /\ persisted = <<>>

DBIdle ==
    /\ tipos = {} /\ planes = {} /\ organismos = {} /\ verificaciones = {}
    /\ medidas = <<>> /\ verif_medida = {} /\ reportadas = <<>>
    /\ usuarios = [u \in UsuarioPks |->
                    [organismo_sectorial |-> NULL, is_staff |-> FALSE]]

InitPerm ==
    /\ request_user \in Callers
    /\ ret_sectorial = NotCalled /\ ret_admin = NotCalled
    /\ AuditIdle /\ ConcIdle /\ DBIdle /\ last = NoOp

NextPerm ==
    \/ \E u \in Callers : Request(u) /\ UNCHANGED <<auditVars, last, concVars, dbVars>>
    \/ CheckSectorial /\ UNCHANGED <<auditVars, last, concVars, dbVars>>
    \/ CheckSectorialOrAdmin /\ UNCHANGED <<auditVars, last, concVars, dbVars>>

SpecPerm == InitPerm /\ [][NextPerm]_vars

InitAudit ==
    /\ PermIdle /\ AuditIdle /\ ConcIdle /\ DBIdle /\ last = NoOp

NextAudit ==
    \/ \E cb \in SavedRefs, ub \in SavedRefs :
          Construct(cb, ub) /\ UNCHANGED <<permVars, concVars, dbVars>>
    \/ \E ref \in SavedRefs :
          AssignCreatedBy(ref) /\ UNCHANGED <<permVars, concVars, dbVars>>
    \/ \E ref \in SavedRefs :
          AssignUpdatedBy(ref) /\ UNCHANGED <<permVars, concVars, dbVars>>
    \/ \E p \in 1..MaxPk : Load(p) /\ UNCHANGED <<permVars, concVars, dbVars>>
    \/ \E a \in UserRefs : Save(a) /\ UNCHANGED <<permVars, concVars, dbVars>>

SpecAudit == InitAudit /\ [][NextAudit]_vars

InitReport == InitAudit

NextReport ==
    \/ Construct(NoneRef, NoneRef) /\ UNCHANGED <<permVars, concVars, dbVars>>
    \/ \E e \in EstadoInputs :
          ConstructWithEstado(e) /\ UNCHANGED <<permVars, concVars, dbVars>>
    \/ \E e \in EstadoInputs :
          AssignEstado(e) /\ UNCHANGED <<permVars, concVars, dbVars>>
    \/ \E p \in 1..MaxPk : Load(p) /\ UNCHANGED <<permVars, concVars, dbVars>>
    \/ \E a \in UserRefs : Save(a) /\ UNCHANGED <<permVars, concVars, dbVars>>

SpecReport == InitReport /\ [][NextReport]_vars

InitConc ==
    /\ PermIdle /\ AuditIdle /\ DBIdle /\ last = NoOp
    /\ pc = [t \in Threads |-> "L38"]
    /\ user = [t \in Threads |-> NoneRef]
    /\ actor \in [Threads -> UserRefs]
    /\ persisted = <<>>

NextConc ==
    \/ \E t \in Threads : L38(t) /\ UNCHANGED <<permVars, last, dbVars>>
    \/ \E t \in Threads : L39(t) /\ UNCHANGED <<permVars, last, dbVars>>
    \/ \E t \in Threads : L41(t) /\ UNCHANGED <<permVars, last, dbVars>>
    \/ \E t \in Threads : L42(t) /\ UNCHANGED <<permVars, last, dbVars>>
    \/ \E t \in Threads : L43(t) /\ UNCHANGED <<permVars, last, dbVars>>
    \/ \E t \in Threads : L44(t) /\ UNCHANGED <<permVars, last, dbVars>>

SpecConc == InitConc /\ [][NextConc]_vars

InitDB ==
    /\ PermIdle /\ AuditIdle /\ ConcIdle /\ last = NoOp
    /\ tipos = {} /\ planes = {} /\ organismos = {} /\ verificaciones = {}
    /\ medidas = <<>> /\ verif_medida = {} /\ reportadas = <<>>
    /\ usuarios \in [UsuarioPks ->
                      [organismo_sectorial : {NULL}, is_staff : BOOLEAN]]

NextDB ==
    \/ \E t \in TipoPks : CreateTipoMedida(t) /\ UNCHANGED <<permVars, auditVars, concVars>>
    \/ \E p \in PlanPks : CreatePlan(p) /\ UNCHANGED <<permVars, auditVars, concVars>>
    \/ \E o \in OrganismoPks :
          CreateOrganismoSectorial(o) /\ UNCHANGED <<permVars, auditVars, concVars>>
    \/ \E v \in VerificacionPks :
          CreateVerificacion(v) /\ UNCHANGED <<permVars, auditVars, concVars>>
    \/ \E m \in MedidaPks, t \in TipoPks, p \in PlanPks, o \in OrganismoPks :
          CreateMedida(m, t, p, o) /\ UNCHANGED <<permVars, auditVars, concVars>>
    \/ \E v \in VerificacionPks, m \in MedidaPks :
          CreateVerificacionMedida(v, m) /\ UNCHANGED <<permVars, auditVars, concVars>>
    \/ \E r \in ReportadaPks, o \in OrganismoPks, m \in MedidaPks :
          CreateMedidaReportada(r, o, m) /\ UNCHANGED <<permVars, auditVars, concVars>>
    \/ \E u \in UsuarioPks, o \in OrganismoPks \cup {NULL} :
          SetUsuarioOrganismo(u, o) /\ UNCHANGED <<permVars, auditVars, concVars>>
    \/ \E t \in TipoPks : DeleteTipoMedida(t) /\ UNCHANGED <<permVars, auditVars, concVars>>
    \/ \E p \in PlanPks : DeletePlan(p) /\ UNCHANGED <<permVars, auditVars, concVars>>
    \/ \E o \in OrganismoPks :
          DeleteOrganismoSectorial(o) /\ UNCHANGED <<permVars, auditVars, concVars>>
    \/ \E v \in VerificacionPks :
          DeleteVerificacion(v) /\ UNCHANGED <<permVars, auditVars, concVars>>
    \/ \E m \in MedidaPks : DeleteMedida(m) /\ UNCHANGED <<permVars, auditVars, concVars>>
    \/ \E r \in ReportadaPks :
          DeleteMedidaReportada(r) /\ UNCHANGED <<permVars, auditVars, concVars>>

SpecDB == InitDB /\ [][NextDB]_vars

(***************************************************************************)
(*                             The claims                                  *)
(***************************************************************************)

\* the last operation was ModeloBase.save()
Saved == last.op = "save"

\* the ambient actor of the last save was a user with a pk
ActorPersisted == last.actor.present /\ last.actor.pk # NULL

\* C1: a save of an already persisted record while the ambient actor is a
\* persisted user B leaves created_by as it was and sets updated_by to B.
C1_LaterSaveStampsUpdatedBy ==
    (Saved /\ ~last.was_new /\ ActorPersisted) =>
        /\ self.created_by = last.before.created_by
        /\ self.updated_by = last.actor
        /\ rows[self.pk].updated_by_id = last.actor.pk

C3_FirstSaveStampsActor ==
    (Saved /\ last.was_new /\ ActorPersisted) =>
        /\ self.created_by = last.actor
        /\ self.updated_by = last.actor
        /\ rows[self.pk].created_by_id = last.actor.pk
        /\ rows[self.pk].updated_by_id = last.actor.pk

\* a first save by A of an instance the caller had stamped with another user
C3_Witness ==
    /\ Saved /\ last.was_new /\ ActorPersisted
    /\ last.before.created_by \notin {NoneRef, last.actor}
    /\ last.before.updated_by \notin {NoneRef, last.actor}
    /\ self.created_by = last.actor

\* the caller cannot be looked up: absent, without the attribute groups, or
\* with a group lookup that was evaluated and raised
CannotLookUp(r) ==
    \/ ~request_user.present
    \/ request_user.groups = "NoAttr"
    \/ request_user.groups = "Raises" /\ r.looked_up

\* C4 as stated: both predicates deny and never raise whenever the caller is
\* absent, lacks the attribute groups, or the group lookup raises.
C4_BothDenyWithoutLookup ==
    \A r \in {ret_sectorial, ret_admin} :
        r.called => /\ r.value # "Raise"
                    /\ CannotLookUp(r) => Falsy(r.value)

\* C4 as amended: neither predicate ever raises; IsOrganizacionSectorial
\* denies (None for an absent caller, False otherwise) whenever the caller is
\* absent, lacks groups or the lookup raises; IsOrganizacionSectorialOrAdmin
\* denies in those cases unless the caller's is_staff is true, which grants
\* without the group lookup being evaluated.
C4_FailClosed ==
    /\ ret_sectorial.called =>
          /\ ret_sectorial.value # "Raise"
          /\ (~request_user.present \/ request_user.groups # "ok")
                => Falsy(ret_sectorial.value)
    /\ ret_admin.called =>
          /\ ret_admin.value # "Raise"
          /\ (\/ ~request_user.present
              \/ request_user.groups # "ok" /\ request_user.is_staff # "True")
                => Falsy(ret_admin.value)

\* a non-staff caller whose group lookup raised was denied by both
C4_Witness ==
    /\ ret_sectorial.called /\ ret_admin.called
    /\ request_user.groups = "Raises" /\ request_user.is_staff = "False"
    /\ ret_admin.looked_up
    /\ ret_sectorial.value = "False" /\ ret_admin.value = "False"

\* the caller is present and its groups hold organizacion_sectorial
InGroup ==
    /\ request_user.present
    /\ request_user.groups = "ok"
    /\ GROUP_NAME \in request_user.names

\* C5: IsOrganizacionSectorial grants if and only if a caller is present and
\* belongs to the group organizacion_sectorial; an absent caller and a staff
\* caller outside the group are denied.
C5_SectorialIffInGroup ==
    ret_sectorial.called => (Truthy(ret_sectorial.value) <=> InGroup)

\* a staff caller outside the group was denied
C5_Witness ==
    /\ ret_sectorial.called
    /\ request_user.is_staff = "True"
    /\ request_user.groups = "ok" /\ ~InGroup
    /\ ret_sectorial.value = "False"

C7_NoDanglingReference ==
    /\ \A m \in DOMAIN medidas :
          /\ medidas[m].tipo_medida \in tipos
          /\ medidas[m].plan \in planes
          /\ medidas[m].organismo_sectorial \in organismos
    /\ \A r \in DOMAIN reportadas :
          /\ reportadas[r].medida \in DOMAIN medidas
          /\ reportadas[r].organismo_sectorial \in organismos
    /\ \A l \in verif_medida :
          /\ l.medida \in DOMAIN medidas
          /\ l.verificacion \in verificaciones
    /\ last.op = "delete_tipo_medida" => last.id \notin tipos
    /\ last.op = "delete_plan" => last.id \notin planes
    /\ last.op = "delete_organismo" => last.id \notin organismos
    /\ last.op = "delete_medida" => last.id \notin DOMAIN medidas

\* a Plan was deleted and took a Medida, its report and its link along
C7_Witness ==
    /\ last.op = "delete_plan"
    /\ last.removed.medidas # {}
    /\ last.removed.reportadas # {}
    /\ last.removed.links # {}
    /\ organismos # {} /\ tipos # {} /\ verificaciones # {}

\* C8: deleting an OrganismoSectorial referenced by a User leaves the User
\* row in place with organismo_sectorial null and every other field as it was.
C8_UserKeptWithNullOrganismo ==
    last.op = "delete_organismo" =>
        \A u \in DOMAIN last.usuarios_before :
            last.usuarios_before[u].organismo_sectorial = last.id =>
                /\ u \in DOMAIN usuarios
                /\ usuarios[u] =
                     [last.usuarios_before[u] EXCEPT !.organismo_sectorial = NULL]

\* the OrganismoSectorial of a staff user was deleted
C8_Witness ==
    /\ last.op = "delete_organismo"
    /\ \E u \in DOMAIN last.usuarios_before :
          /\ last.usuarios_before[u].organismo_sectorial = last.id
          /\ last.usuarios_before[u].is_staff
          /\ u \in DOMAIN usuarios
          /\ usuarios[u].organismo_sectorial = NULL

\* C9: a MedidaReportada built without estado has VERIFICACION_PENDIENTE, and
\* every row of the table has an estado among ESTADO_VERIFICACION: a save
\* carrying another value is rejected.
C9_EstadoAlwaysAChoice ==
    /\ last.op = "construct" => self.estado = "VERIFICACION_PENDIENTE"
    /\ \A p \in DOMAIN rows : rows[p].estado \in ESTADO_VERIFICACION

\* C10: once both threads saving the same new instance are done, the row's
\* created_by is the actor of the thread that persisted first and its
\* updated_by is the actor of the thread that wrote last.
C10_FirstCreatesLastUpdates ==
    (\A t \in Threads : pc[t] = "done") =>
        /\ rows[self.pk].created_by_id = FkId(actor[persisted[1]])
        /\ rows[self.pk].updated_by_id = FkId(actor[persisted[Len(persisted)]])
=============================================================================
